---- MODULE Spec2Model ----
(***************************************************************************)
(* A model of ez_fuzzbenedict.FuzzBenedict (src/src/ez_fuzzbenedict/       *)
(* __init__.py): a nested mapping with fuzzy key-path lookup.              *)
(*                                                                         *)
(* Strings are sequences of one-character strings.  A key of a mapping, or *)
(* an element of a list/tuple query, is a record [t, c]: t = "str" for a   *)
(* Python str with characters c, t = "int" for a Python int whose decimal  *)
(* digits are c (so str(k) is k.c, while k itself never equals a str).     *)
(* A node of the tree is a mapping (an ordered sequence of items, as a     *)
(* Python dict keeps insertion order) or a leaf value.                     *)
(***************************************************************************)
EXTENDS Integers, Sequences, FiniteSets, TLC

\* ------------------------------------------------------------ bounds

\* Number of FuzzBenedict instances a behaviour constructs.
MaxInstances == 1

\* Number of instances constructed where only the configuration is followed.
MaxConfigInstances == 3

\* Depth of nested __getitem__ -> fuzzy_get -> _get_closest_key_path ->
\* __getitem__ cycles after which the interpreter raises RecursionError.
RecursionLimit == 3

\* ------------------------------------------------------------ values

StrK(cs) == [t |-> "str", c |-> cs]

IntK(cs) == [t |-> "int", c |-> cs]

Leaf(n) == [kind |-> "leaf", items |-> <<>>, v |-> n]

Map(items) == [kind |-> "map", items |-> items, v |-> 0]

Item(k, n) == [k |-> k, n |-> n]

\* Optional[int]: None, or an int.
None == [some |-> FALSE, v |-> 0]

Some(n) == [some |-> TRUE, v |-> n]

\* Python's "a or b" on Optional[int]: b when a is None or 0, else a.
PyOr(a, b) == IF a.some /\ a.v # 0 THEN a ELSE b

\* ------------------------------------------------------------ strings

\* str.split(sep) for a one-character separator: always at least one part.
RECURSIVE SplitFrom(_, _, _, _)
SplitFrom(cs, sep, i, cur) ==
    IF i > Len(cs) THEN <<cur>>
    ELSE IF cs[i] = sep THEN <<cur>> \o SplitFrom(cs, sep, i + 1, <<>>)
    ELSE SplitFrom(cs, sep, i + 1, Append(cur, cs[i]))

Split(cs, sep) == SplitFrom(cs, sep, 1, <<>>)

\* sep.join(parts)
RECURSIVE Join(_, _)
Join(parts, sep) ==
    IF parts = <<>> THEN <<>>
    ELSE IF Len(parts) = 1 THEN parts[1]
    ELSE parts[1] \o <<sep>> \o Join(Tail(parts), sep)

\* rapidfuzz.utils.default_process: lower-case, every non-alphanumeric
\* character becomes a space, leading and trailing spaces are stripped.
LowerChar(ch) ==
    CASE ch = "A" -> "a"
      [] ch = "B" -> "b"
      [] ch \in {".", "/", " "} -> " "
      [] OTHER -> ch

RECURSIVE LStrip(_)
LStrip(cs) == IF cs # <<>> /\ cs[1] = " " THEN LStrip(Tail(cs)) ELSE cs

RECURSIVE RStrip(_)
RStrip(cs) ==
    IF cs # <<>> /\ cs[Len(cs)] = " " THEN RStrip(SubSeq(cs, 1, Len(cs) - 1)) ELSE cs

DefaultProcess(cs) == RStrip(LStrip([i \in 1..Len(cs) |-> LowerChar(cs[i])]))

\* Length of a longest common subsequence.
RECURSIVE LCS(_, _)
LCS(a, b) ==
    IF a = <<>> \/ b = <<>> THEN 0
    ELSE IF a[1] = b[1] THEN 1 + LCS(Tail(a), Tail(b))
    ELSE LET x == LCS(Tail(a), b)
             y == LCS(a, Tail(b))
         IN IF x >= y THEN x ELSE y

\* The score process.extractOne gives the processed query against one
\* processed candidate.  The library's scorer is taken by its base measure:
\* 0 when either string is empty, otherwise the normalised Indel similarity
\* 200*LCS/(|a|+|b|) in 0..100, kept as the fraction num/den.  (The default
\* scorer equals it on single words of similar length, and is like it
\* a deterministic function of the two strings, 100 on equal ones.)
ScoreNum(a, b) == IF a = <<>> \/ b = <<>> THEN 0 ELSE 200 * LCS(a, b)

ScoreDen(a, b) == IF a = <<>> \/ b = <<>> THEN 1 ELSE Len(a) + Len(b)

\* The score as the integer below it; for an integer threshold t,
\* score < t exactly when Floor(score) < t.
Score(a, b) == ScoreNum(a, b) \div ScoreDen(a, b)

\* Does candidate b score strictly higher than candidate a against q?
Better(q, a, b) == ScoreNum(q, b) * ScoreDen(q, a) > ScoreNum(q, a) * ScoreDen(q, b)

\* process.extractOne(part, keys, processor=utils.default_process): the
\* processor rejects a query that is not a str (TypeError); no candidate
\* gives None; otherwise the first candidate with the highest score.
ExtractOne(part, keys) ==
    IF part.t # "str" THEN [kind |-> "TypeError", match |-> <<>>, score |-> 0]
    ELSE IF keys = <<>> THEN [kind |-> "none", match |-> <<>>, score |-> 0]
    ELSE LET q == DefaultProcess(part.c)
             pk == [i \in 1..Len(keys) |-> DefaultProcess(keys[i])]
             best == CHOOSE i \in 1..Len(keys) :
                        /\ \A j \in 1..Len(keys) : ~Better(q, pk[i], pk[j])
                        /\ \A j \in 1..(i - 1) : Better(q, pk[j], pk[i])
         IN [kind |-> "ok", match |-> keys[best], score |-> Score(q, pk[best])]

\* ------------------------------------------------------------ queries

\* A key handed to d[key], fuzzy_get or _get_closest_key_path: a str
\* (parts = <<the string>>), a list or tuple of elements, an int, a
\* frozenset() or a dict.
StrQ(cs) == [kind |-> "str", parts |-> <<StrK(cs)>>]

ListQ(ps) == [kind |-> "list", parts |-> ps]

TupleQ(ps) == [kind |-> "tuple", parts |-> ps]

IntQ(cs) == [kind |-> "int", parts |-> <<IntK(cs)>>]

FrozensetQ == [kind |-> "frozenset", parts |-> <<>>]

DictQ == [kind |-> "dict", parts |-> <<>>]

\* ------------------------------------------------------------ benedict

\* The parent class's key-path parsing: a str is split on the separator, the
\* str elements of a list or tuple are split too, anything else is one key.
RECURSIVE SplitElems(_, _)
SplitElems(ps, sep) ==
    IF ps = <<>> THEN <<>>
    ELSE LET head == IF ps[1].t = "str"
                     THEN LET sp == Split(ps[1].c, sep)
                          IN [i \in 1..Len(sp) |-> StrK(sp[i])]
                     ELSE <<ps[1]>>
         IN head \o SplitElems(Tail(ps), sep)

ParseKeys(key, sep) == SplitElems(key.parts, sep)

\* Exact descent through nested mappings, one key per level.
RECURSIVE Lookup(_, _)
Lookup(node, keys) ==
    IF keys = <<>> THEN [found |-> TRUE, node |-> node]
    ELSE IF node.kind # "map" THEN [found |-> FALSE, node |-> Leaf(0)]
    ELSE LET idx == {i \in 1..Len(node.items) : node.items[i].k = keys[1]}
         IN IF idx = {} THEN [found |-> FALSE, node |-> Leaf(0)]
            ELSE Lookup(node.items[CHOOSE i \in idx : TRUE].n, Tail(keys))

\* benedict's exact access, shared by "key in self" and super().__getitem__:
\* a dict as key is unhashable (TypeError); a key that parses to no key at
\* all, or a frozenset, is absent.
ExactAccess(self, key) ==
    IF key.kind = "dict" THEN [kind |-> "TypeError", node |-> Leaf(0)]
    ELSE LET keys == ParseKeys(key, self.sep)
             r == Lookup(self.node, keys)
         IN IF keys # <<>> /\ r.found
            THEN [kind |-> "found", node |-> r.node]
            ELSE [kind |-> "KeyError", node |-> Leaf(0)]

\* benedict's constructor refuses a dict one of whose keys holds the separator.
RECURSIVE KeysOk(_, _)
KeysOk(node, sep) ==
    \A i \in 1..Len(node.items) :
        /\ \A j \in 1..Len(node.items[i].k.c) : node.items[i].k.c[j] # sep
        /\ KeysOk(node.items[i].n, sep)

\* ------------------------------------------------------------ state

VARIABLES
    fuzzy_key_enabled,  \* FuzzBenedict.Config.fuzzy_key_enabled (class attribute)
    fuzzy_threshold,    \* FuzzBenedict.Config.fuzzy_threshold (class attribute)
    instances,          \* the FuzzBenedict objects constructed so far
    last                \* the operation in progress: its arguments and outcome

vars == <<fuzzy_key_enabled, fuzzy_threshold, instances, last>>

\* ------------------------------------------------------------ FuzzBenedict

\* What a lookup or a resolution ended with.  kind is "value", "default",
\* "path", "None" or the exception raised; node the value returned; path the
\* string returned by the resolver; matched the keys it appended to
\* matched_parts; scores the best score of each segment it scored; scored the
\* number of extractOne calls made, nested calls included; why tells the
\* TypeErrors ("query", "segment", "empty", "unhashable") and the two ways
\* the resolver returns None ("not_mapping", "below") apart.
Out(kind, node, path, matched, scores, scored, why) ==
    [kind |-> kind, node |-> node, path |-> path, matched |-> matched,
     scores |-> scores, scored |-> scored, why |-> why]

Plain(kind, node, scored, why) == Out(kind, node, <<>>, <<>>, <<>>, scored, why)

\* Config.fuzzy_threshold as the class body sets it.
DefaultFuzzyThreshold == 75

\* default_factory(): a callable returning a value, or one that raises.
DefaultValue == Leaf(9)

\* The miss policy: default_factory() when one is set, else KeyError.
Miss(df, scored) ==
    CASE df = "none" -> Plain("KeyError", Leaf(0), scored, "")
      [] df = "leaf" -> Plain("default", DefaultValue, scored, "")
      [] OTHER -> Plain("FactoryError", Leaf(0), scored, "")

\* A variant that also rejects a score equal to the threshold.
BelowThreshold_Inclusive(score, threshold) == score <= threshold

\* The comparison of line 214: a best score strictly below the threshold.
BelowThreshold(score, threshold) == score < threshold

\* str(k) for every key of a mapping, in the mapping's order.
KeyStrings(node) == [i \in 1..Len(node.items) |-> node.items[i].k.c]

\* "list(query)" or "query.split(self.keypath_separator)".
QueryParts(self, query) ==
    IF query.kind = "str"
    THEN LET sp == Split(query.parts[1].c, self.sep)
         IN [i \in 1..Len(sp) |-> StrK(sp[i])]
    ELSE query.parts

RECURSIVE GetItem(_, _, _)
RECURSIVE FuzzyGet(_, _, _, _)
RECURSIVE GetWithFuzzyMatching(_, _, _, _)
RECURSIVE GetClosestKeyPath(_, _, _, _)
RECURSIVE Walk(_, _, _, _, _, _)

\* The loop of _get_closest_key_path.  cur is current_dict (its node and, when
\* it is a FuzzBenedict, its default_factory), acc what has been matched.
Walk(self, cur, parts, threshold, acc, d) ==
    IF parts = <<>>
    THEN Out("path", Leaf(0), Join(acc.matched, "."), acc.matched, acc.scores, acc.scored, "")
    ELSE IF cur.node.kind # "map"
    THEN Out("None", Leaf(0), <<>>, acc.matched, acc.scores, acc.scored, "not_mapping")
    ELSE LET keys == KeyStrings(cur.node)
             ex == ExtractOne(parts[1], keys)
         IN IF ex.kind = "TypeError"
            THEN Out("TypeError", Leaf(0), <<>>, acc.matched, acc.scores, acc.scored, "segment")
            ELSE IF ex.kind = "none"
            THEN Out("TypeError", Leaf(0), <<>>, acc.matched, acc.scores, acc.scored + 1, "empty")
            ELSE IF BelowThreshold(ex.score, threshold)
            THEN Out("None", Leaf(0), <<>>, acc.matched,
                     Append(acc.scores, ex.score), acc.scored + 1, "below")
            ELSE LET g == GetItem([node |-> cur.node, df |-> cur.df, sep |-> self.sep],
                                  StrQ(ex.match), d + 1)
                     acc2 == [matched |-> Append(acc.matched, ex.match),
                              scores |-> Append(acc.scores, ex.score),
                              scored |-> acc.scored + 1 + g.scored]
                 IN IF g.kind \in {"value", "default"}
                    THEN Walk(self, [node |-> g.node, df |-> "none"], Tail(parts),
                              threshold, acc2, d)
                    ELSE Out(g.kind, Leaf(0), <<>>, acc2.matched, acc2.scores, acc2.scored, g.why)

\* _get_closest_key_path(query, threshold)
GetClosestKeyPath(self, query, threshold, d) ==
    IF query.kind \notin {"str", "tuple"}
    THEN Plain("TypeError", Leaf(0), 0, "query")
    ELSE Walk(self, [node |-> self.node, df |-> self.df], QueryParts(self, query), threshold,
              [matched |-> <<>>, scores |-> <<>>, scored |-> 0], d)

\* A variant without the exact-membership shortcut.
GetWithFuzzyMatching_NoShortcut(self, key, threshold, d) ==
    LET e == ExactAccess(self, key)
    IN IF e.kind = "TypeError" THEN Plain("TypeError", Leaf(0), 0, "unhashable")
       ELSE LET query == IF key.kind = "list" THEN TupleQ(key.parts) ELSE key
                r == GetClosestKeyPath(self, query, threshold, d)
            IN IF r.kind = "path"
               THEN LET x == ExactAccess(self, StrQ(r.path))
                    IN IF x.kind = "found"
                       THEN Out("value", x.node, r.path, r.matched, r.scores, r.scored, "")
                       ELSE Out("KeyError", Leaf(0), r.path, r.matched, r.scores, r.scored, "path")
               ELSE IF r.kind = "None"
               THEN LET m == Miss(self.df, r.scored)
                    IN Out(m.kind, m.node, <<>>, r.matched, r.scores, r.scored, "")
               ELSE r

\* _get_with_fuzzy_matching(key, threshold)
GetWithFuzzyMatching(self, key, threshold, d) ==
    LET e == ExactAccess(self, key)
    IN IF e.kind = "TypeError" THEN Plain("TypeError", Leaf(0), 0, "unhashable")
       ELSE IF e.kind = "found" THEN Plain("value", e.node, 0, "")
       ELSE LET query == IF key.kind = "list" THEN TupleQ(key.parts) ELSE key
                r == GetClosestKeyPath(self, query, threshold, d)
            IN IF r.kind = "path"
               THEN LET x == ExactAccess(self, StrQ(r.path))
                    IN IF x.kind = "found"
                       THEN Out("value", x.node, r.path, r.matched, r.scores, r.scored, "")
                       ELSE Out("KeyError", Leaf(0), r.path, r.matched, r.scores, r.scored, "path")
               ELSE IF r.kind = "None"
               THEN LET m == Miss(self.df, r.scored)
                    IN Out(m.kind, m.node, <<>>, r.matched, r.scores, r.scored, "")
               ELSE r

\* fuzzy_get(key, with_threshold)
FuzzyGet(self, key, with_threshold, d) ==
    GetWithFuzzyMatching(self, key, PyOr(with_threshold, Some(fuzzy_threshold)).v, d)

\* A variant that never looks at fuzzy_key_enabled.
GetItem_AlwaysExact(self, key, d) ==
    IF d > RecursionLimit THEN Plain("RecursionError", Leaf(0), 0, "")
    ELSE LET e == ExactAccess(self, key)
         IN IF e.kind = "TypeError" THEN Plain("TypeError", Leaf(0), 0, "unhashable")
            ELSE IF e.kind = "found" THEN Plain("value", e.node, 0, "")
            ELSE Miss(self.df, 0)

\* __getitem__(key); d counts the frames of __getitem__ below this one.
GetItem(self, key, d) ==
    IF d > RecursionLimit THEN Plain("RecursionError", Leaf(0), 0, "")
    ELSE IF fuzzy_key_enabled THEN FuzzyGet(self, key, None, d)
    ELSE LET e == ExactAccess(self, key)
         IN IF e.kind = "TypeError" THEN Plain("TypeError", Leaf(0), 0, "unhashable")
            ELSE IF e.kind = "found" THEN Plain("value", e.node, 0, "")
            ELSE Miss(self.df, 0)

\* A variant that tests "threshold is not None": a threshold of 0 is taken.
InitThreshold_TakesZero(threshold, current) == IF threshold.some THEN threshold.v ELSE current

\* __init__: "threshold or self.Config.fuzzy_threshold"
InitThreshold(threshold, current) == PyOr(threshold, Some(current)).v

\* ------------------------------------------------------------ inputs

\* {"ab": {"cd": 2, "ce": 3}, "Ab": 1}
TreeA ==
    Map(<<Item(StrK(<<"a", "b">>),
               Map(<<Item(StrK(<<"c", "d">>), Leaf(2)), Item(StrK(<<"c", "e">>), Leaf(3))>>)),
          Item(StrK(<<"A", "b">>), Leaf(1))>>)

\* {4: 4, "ab": {}}
TreeB == Map(<<Item(IntK(<<"4">>), Leaf(4)), Item(StrK(<<"a", "b">>), Map(<<>>))>>)

\* {}
TreeE == Map(<<>>)

Trees == {TreeA, TreeB, TreeE}

DefaultFactories == {"none", "leaf", "raises"}

Separators == {".", "/"}

\* Values given to threshold=, with_threshold= and the threshold setter.
Thresholds == {0, 80, 100}

OptThresholds == {None} \cup {Some(t) : t \in Thresholds}

Keys ==
    { StrQ(<<"a", "b">>),
      StrQ(<<"A", "b">>),
      StrQ(<<"a", "c">>),
      StrQ(<<"4">>),
      StrQ(<<"a", "b", ".", "c", "d">>),
      StrQ(<<"a", "b", ".", "c">>),
      StrQ(<<"a", "b", "c", ".", "c", "d">>),
      StrQ(<<"a", "b", "c", "/", "c", "d">>),
      StrQ(<<"a", "b", "c", ".", "c", "d", ".", "e">>),
      ListQ(<<StrK(<<"a", "b">>), StrK(<<"c", "d">>)>>),
      TupleQ(<<StrK(<<"a", "b", "c">>), StrK(<<"c", "e">>)>>),
      TupleQ(<<StrK(<<"z", "z">>), IntK(<<"4">>)>>),
      TupleQ(<<StrK(<<"a", "b">>), IntK(<<"4">>)>>),
      ListQ(<<>>),
      TupleQ(<<>>),
      IntQ(<<"4">>),
      FrozensetQ,
      DictQ }

\* ------------------------------------------------------------ actions

\* The configuration as an operation finds it.
Before == [threshold |-> fuzzy_threshold, enabled |-> fuzzy_key_enabled]

Idle ==
    [op |-> "idle", inst |-> 0, key |-> FrozensetQ, arg |-> None, flag |-> FALSE,
     before |-> [threshold |-> 0, enabled |-> FALSE], res |-> Plain("None", Leaf(0), 0, "")]

Init ==
    /\ fuzzy_key_enabled = FALSE
    /\ fuzzy_threshold = DefaultFuzzyThreshold
    /\ instances = <<>>
    /\ last = Idle

\* FuzzBenedict(tree, default_factory=df, threshold=threshold, keypath_separator=sep)
Construct(tree, df, sep, threshold) ==
    /\ last.op = "idle"
    /\ Len(instances) < MaxInstances
    /\ KeysOk(tree, sep)
    /\ instances' = Append(instances, [node |-> tree, df |-> df, sep |-> sep])
    /\ fuzzy_threshold' = InitThreshold(threshold, fuzzy_threshold)
    /\ last' = [Idle EXCEPT !.op = "init", !.inst = Len(instances) + 1,
                            !.arg = threshold, !.before = Before]
    /\ UNCHANGED fuzzy_key_enabled

\* instances[i].threshold = value
SetThreshold(i, value) ==
    /\ last.op = "idle"
    /\ fuzzy_threshold' = value
    /\ last' = [Idle EXCEPT !.op = "set_threshold", !.inst = i,
                            !.arg = Some(value), !.before = Before]
    /\ UNCHANGED <<fuzzy_key_enabled, instances>>

\* instances[i].fuzzy_key_enabled = value
SetFuzzyKeyEnabled(i, value) ==
    /\ last.op = "idle"
    /\ fuzzy_key_enabled' = value
    /\ last' = [Idle EXCEPT !.op = "set_enabled", !.inst = i, !.flag = value,
                            !.before = Before]
    /\ UNCHANGED <<fuzzy_threshold, instances>>

\* instances[i][key]
CallGetItem(i, key) ==
    /\ last.op = "idle"
    /\ last' = [Idle EXCEPT !.op = "getitem", !.inst = i, !.key = key,
                            !.before = Before,
                            !.res = GetItem(instances[i], key, 0)]
    /\ UNCHANGED <<fuzzy_key_enabled, fuzzy_threshold, instances>>

\* instances[i].fuzzy_get(key, with_threshold)
CallFuzzyGet(i, key, with_threshold) ==
    /\ last.op = "idle"
    /\ last' = [Idle EXCEPT !.op = "fuzzy_get", !.inst = i, !.key = key,
                            !.arg = with_threshold, !.before = Before,
                            !.res = FuzzyGet(instances[i], key, with_threshold, 0)]
    /\ UNCHANGED <<fuzzy_key_enabled, fuzzy_threshold, instances>>

\* instances[i]._get_closest_key_path(query, threshold)
CallGetClosestKeyPath(i, query, threshold) ==
    /\ last.op = "idle"
    /\ last' = [Idle EXCEPT !.op = "closest", !.inst = i, !.key = query,
                            !.arg = Some(threshold), !.before = Before,
                            !.res = GetClosestKeyPath(instances[i], query, threshold, 0)]
    /\ UNCHANGED <<fuzzy_key_enabled, fuzzy_threshold, instances>>

\* The operation returns (or its exception reaches the caller).
Return ==
    /\ last.op # "idle"
    /\ last' = Idle
    /\ UNCHANGED <<fuzzy_key_enabled, fuzzy_threshold, instances>>

\* No operation is in progress: calls are synchronous, one at a time.
Ready == last.op = "idle"

Next ==
    \/ Ready /\ \E tree \in Trees, df \in DefaultFactories, sep \in Separators, t \in OptThresholds :
                    Construct(tree, df, sep, t)
    \/ Ready /\ \E i \in 1..Len(instances), t \in Thresholds : SetThreshold(i, t)
    \/ Ready /\ \E i \in 1..Len(instances), b \in BOOLEAN : SetFuzzyKeyEnabled(i, b)
    \/ Ready /\ \E i \in 1..Len(instances), key \in Keys : CallGetItem(i, key)
    \/ Ready /\ \E i \in 1..Len(instances), key \in Keys, t \in OptThresholds :
                    CallFuzzyGet(i, key, t)
    \/ Ready /\ \E i \in 1..Len(instances), q \in Keys, t \in Thresholds :
                    CallGetClosestKeyPath(i, q, t)
    \/ Return

Spec == Init /\ [][Next]_vars

\* The configuration alone, over several objects: constructions and the two
\* setters.  What the objects hold plays no part in it.
ConstructConfig(df, t) ==
    /\ Len(instances) < MaxConfigInstances
    /\ instances' = Append(instances, [node |-> TreeE, df |-> df, sep |-> "."])
    /\ fuzzy_threshold' = InitThreshold(t, fuzzy_threshold)
    /\ last' = [Idle EXCEPT !.op = "init", !.inst = Len(instances) + 1,
                            !.arg = t, !.before = Before]
    /\ UNCHANGED fuzzy_key_enabled

NextConfig ==
    \/ Ready /\ \E df \in DefaultFactories, t \in OptThresholds : ConstructConfig(df, t)
    \/ Ready /\ \E i \in 1..Len(instances), t \in Thresholds : SetThreshold(i, t)
    \/ Ready /\ \E i \in 1..Len(instances), b \in BOOLEAN : SetFuzzyKeyEnabled(i, b)
    \/ Return

SpecConfig == Init /\ [][NextConfig]_vars

\* ------------------------------------------------------------ properties

\* The object the operation in progress was called on.
Self == instances[last.inst]

\* A str, or a non-empty list or tuple of str.
ValidQuery(q) ==
    \/ q.kind = "str"
    \/ /\ q.kind \in {"list", "tuple"}
       /\ q.parts # <<>>
       /\ \A i \in 1..Len(q.parts) : q.parts[i].t = "str"

IsExactPath(self, key) == ExactAccess(self, key).kind = "found"

RECURSIVE AllStrKeys(_)
AllStrKeys(node) ==
    \A i \in 1..Len(node.items) : node.items[i].k.t = "str" /\ AllStrKeys(node.items[i].n)

\* The greedy walk without any threshold: at each level the child under the
\* best-scoring key.  status is "done" when every segment found a level with
\* keys, and min is then the least of the best scores.
RECURSIVE Greedy(_, _, _)
Greedy(node, parts, min) ==
    IF parts = <<>> THEN [status |-> "done", min |-> min]
    ELSE IF node.kind # "map" THEN [status |-> "not_mapping", min |-> min]
    ELSE IF parts[1].t # "str" THEN [status |-> "segment", min |-> min]
    ELSE IF node.items = <<>> THEN [status |-> "empty", min |-> min]
    ELSE LET ex == ExtractOne(parts[1], KeyStrings(node))
             i == CHOOSE j \in 1..Len(node.items) : node.items[j].k.c = ex.match
         IN Greedy(node.items[i].n, Tail(parts), IF ex.score < min THEN ex.score ELSE min)

Misses == {"KeyError", "default", "FactoryError"}

\* C1: fuzzy_get of a key that is an exact path returns the value stored at
\* exactly that path, for every with_threshold, without scoring any segment.
C1_ExactnessPrecedence ==
    (/\ last.op = "fuzzy_get"
     /\ last.key.kind \in {"str", "list", "tuple"}
     /\ IsExactPath(Self, last.key))
    => /\ last.res.kind = "value"
       /\ last.res.node = Lookup(Self.node, ParseKeys(last.key, Self.sep)).node
       /\ last.res.scored = 0

\* Reached: "Ab" looked up, with threshold 100 in force, in a tree that also
\* holds "ab", a key with the same normalised form listed before it.
C1_Witness ==
    /\ last.op = "fuzzy_get"
    /\ last.key = StrQ(<<"A", "b">>)
    /\ Self.node = TreeA
    /\ last.arg = Some(100)
    /\ last.res.kind = "value"
    /\ last.res.node = Leaf(1)

\* C2: for a query that is not an exact path, with s the least best score
\* along the greedy walk, fuzzy_get(key, with_threshold=t) succeeds when
\* t <= s and misses when t > s, for every integer t in 0..100, whatever the
\* configured threshold (stated for trees of str keys with separator ".").
C2_ThresholdMonotone ==
    (/\ last.op = "fuzzy_get"
     /\ last.arg.some
     /\ ValidQuery(last.key)
     /\ ~IsExactPath(Self, last.key)
     /\ AllStrKeys(Self.node)
     /\ Self.sep = "."
     /\ Greedy(Self.node, QueryParts(Self, last.key), 100).status = "done")
    => LET s == Greedy(Self.node, QueryParts(Self, last.key), 100).min
       IN /\ last.arg.v <= s => last.res.kind = "value"
          /\ last.arg.v > s => last.res.kind \in Misses

\* The same with with_threshold = 0 left out.
C2_NonZero ==
    (last.op = "fuzzy_get" /\ last.arg = Some(0)) \/ C2_ThresholdMonotone

\* C3: a query that is not a str or a non-empty sequence of str makes
\* _get_closest_key_path raise TypeError, for every tree and threshold: never
\* None, never a path.
C3_InvalidQueryRejected ==
    (last.op = "closest" /\ ~ValidQuery(last.key)) => last.res.kind = "TypeError"

\* C4: on a miss fuzzy_get gives default_factory() when one is set (what it
\* raises propagates) and KeyError when none is set; so it raises KeyError
\* only if no default_factory is set.
C4_MissPolicy ==
    (last.op = "fuzzy_get" /\ ValidQuery(last.key))
    => /\ last.res.kind = "KeyError" => Self.df = "none"
       /\ last.res.kind \in Misses => last.res.kind = Miss(Self.df, 0).kind

\* C5: a path returned by _get_closest_key_path has as many segments as the
\* query, is the matched keys joined with the tree's separator, and is an
\* exact path of the tree.
C5_ResolvedPathIsReal ==
    (last.op = "closest" /\ ValidQuery(last.key) /\ last.res.kind = "path")
    => /\ Len(last.res.matched) = Len(QueryParts(Self, last.key))
       /\ last.res.path = Join(last.res.matched, Self.sep)
       /\ IsExactPath(Self, StrQ(last.res.path))

\* C6: d[key] follows the flag as last assigned.  While it is False the
\* outcome is that of the exact lookup alone (the value, or the miss policy);
\* while it is True it is the outcome of fuzzy_get(key) with the configured
\* threshold.  Only the setter changes the flag.
C6_FuzzyKeyEnabledToggle ==
    /\ last.op = "set_enabled" => fuzzy_key_enabled = last.flag
    /\ last.op \notin {"set_enabled", "idle"} => fuzzy_key_enabled = last.before.enabled
    /\ (last.op = "getitem" /\ last.before.enabled)
       => last.res = FuzzyGet(Self, last.key, None, 0)
    /\ (last.op = "getitem" /\ ~last.before.enabled)
       => LET e == ExactAccess(Self, last.key)
          IN /\ last.res.scored = 0
             /\ e.kind = "found" => last.res.kind = "value" /\ last.res.node = e.node
             /\ e.kind = "KeyError" => /\ last.res.kind = Miss(Self.df, 0).kind
                                       /\ last.res.node = Miss(Self.df, 0).node

\* Reached: with the flag switched on, d[key] resolves a key that is no exact
\* path.
C6_Witness ==
    /\ last.op = "getitem"
    /\ fuzzy_key_enabled
    /\ ~IsExactPath(Self, last.key)
    /\ last.res.kind = "value"
    /\ last.res.scored = 2

\* C7: when the walk comes to a mapping without keys with a str segment left,
\* fuzzy_get reports a miss: KeyError without a default_factory, its value
\* with one.
C7_EmptyLevelIsMiss ==
    (/\ last.op = "fuzzy_get"
     /\ ValidQuery(last.key)
     /\ ~IsExactPath(Self, last.key)
     /\ Greedy(Self.node, QueryParts(Self, last.key), 100).status = "empty")
    => /\ last.res.kind \in Misses
       /\ last.res.kind = Miss(Self.df, 0).kind

\* The highest score of a segment against the keys of a level.
IsBestScore(part, keys, sc) ==
    LET q == DefaultProcess(part.c)
    IN /\ \E i \in 1..Len(keys) : Score(q, DefaultProcess(keys[i])) = sc
       /\ \A i \in 1..Len(keys) : Score(q, DefaultProcess(keys[i])) <= sc

\* C8: for a query of str segments _get_closest_key_path scores the segments
\* in order; it returns None at the first one whose best score is strictly
\* below the threshold or that finds a current node that is no mapping, and
\* scores none after it; it returns a path only if every best score reached
\* the threshold; and what is not a success carries no path.
C8_SegmentIndependence ==
    (/\ last.op = "closest"
     /\ last.key.kind \in {"str", "tuple"}
     /\ \A i \in 1..Len(last.key.parts) : last.key.parts[i].t = "str")
    => LET r == last.res
           t == last.arg.v
           parts == QueryParts(Self, last.key)
           n == Len(r.scores)
       IN /\ n <= Len(parts)
          /\ r.kind \in {"path", "None"} => r.scored = n
          /\ (n >= 1 /\ Self.node.items # <<>>)
             => IsBestScore(parts[1], KeyStrings(Self.node), r.scores[1])
          /\ r.kind = "path" => n = Len(parts) /\ \A i \in 1..n : r.scores[i] >= t
          /\ r.kind = "None"
             => \/ /\ r.why = "below"
                   /\ n >= 1
                   /\ r.scores[n] < t
                   /\ \A i \in 1..(n - 1) : r.scores[i] >= t
                   /\ Len(r.matched) = n - 1
                \/ /\ r.why = "not_mapping"
                   /\ n < Len(parts)
                   /\ \A i \in 1..n : r.scores[i] >= t
          /\ r.kind # "path" => r.path = <<>>

\* Reached: the first segment matched, the second scored below the threshold,
\* and None was returned.
C8_Witness ==
    /\ last.op = "closest"
    /\ last.res.kind = "None"
    /\ last.res.why = "below"
    /\ Len(last.res.matched) = 1
    /\ Len(last.res.scores) = 2

\* C9: fuzzy_get(key) and d[key] end with a value, a default, KeyError or
\* TypeError after at most one scoring step per segment of the query
\* (default factories that raise left aside).
C9_BoundedResolution ==
    (last.op \in {"fuzzy_get", "getitem"} /\ Self.df # "raises")
    => /\ last.res.kind \in {"value", "default", "KeyError", "TypeError"}
       /\ last.res.scored <= Len(QueryParts(Self, last.key))

\* threshold and fuzzy_key_enabled as an instance reads them.
ThresholdOf(self) == fuzzy_threshold

FuzzyKeyEnabledOf(self) == fuzzy_key_enabled

\* C10: every instance reads one threshold and one flag.  The threshold is 75
\* until something sets it; a construction sets it to its threshold argument
\* unless that is None or 0, and then leaves it; the setter sets it to the
\* value assigned; nothing else changes it.
C10_ClassWideConfig ==
    /\ \A i, j \in 1..Len(instances) :
           /\ ThresholdOf(instances[i]) = ThresholdOf(instances[j])
           /\ FuzzyKeyEnabledOf(instances[i]) = FuzzyKeyEnabledOf(instances[j])
    /\ instances = <<>> => fuzzy_threshold = DefaultFuzzyThreshold /\ ~fuzzy_key_enabled
    /\ last.op = "init"
       => \A i \in 1..Len(instances) :
              ThresholdOf(instances[i]) =
                  IF last.arg.some /\ last.arg.v # 0 THEN last.arg.v ELSE last.before.threshold
    /\ last.op = "set_threshold"
       => \A i \in 1..Len(instances) : ThresholdOf(instances[i]) = last.arg.v
    /\ last.op \notin {"init", "set_threshold", "idle"}
       => fuzzy_threshold = last.before.threshold

\* Reached: a second instance constructed with threshold=0 after the setter
\* had put the threshold at 100, which the construction left in place.
C10_Witness ==
    /\ last.op = "init"
    /\ Len(instances) >= 2
    /\ last.arg = Some(0)
    /\ last.before.threshold = 100
    /\ fuzzy_threshold = 100

====
